---- MODULE Spec2Model ----
(***************************************************************************)
(* A model of alpha_alert.py: the Binance Alpha listing watcher.           *)
(*                                                                         *)
(* The state is the seen-file on disk, the in-memory seen set of the       *)
(* running process, the position of the process in main_loop / the ONCE    *)
(* branch / process_once, and history variables that record the network    *)
(* calls made (detail fetches, tg_send calls) so that the properties of    *)
(* the specification can be stated.                                        *)
(***************************************************************************)
EXTENDS Integers, Sequences, FiniteSets, TLC

(***************************************************************************)
(* Bounds of the model.                                                    *)
(***************************************************************************)
\* the longest listing response fetch_listing_articles returns in the model
MaxArticles == 2
\* the number of cycles (calls of process_once) of one behaviour
MaxCycles == 3
\* the number of phrases of a title given to the classifier
MaxParts == 2
\* the number of tokens of an HTML text given to the extractor
MaxTokens == 3

(***************************************************************************)
(* The remote catalogue: the articles the CMS can return.  An item of the  *)
(* list response carries its identifier under "code" or "articleCode" and  *)
(* a title; the detail response carries the HTML content.  Texts are       *)
(* sequences of tokens (words and tags).                                   *)
(***************************************************************************)
None == "None"

IDS == {"A1", "A2", "A3"}

\* the list-response items: A1 and A2 carry "code", A3 only "articleCode",
\* and one item carries no identifier at all
ItemA1 == [code |-> "A1", articleCode |-> None,
           title |-> <<"Foo", "(FOO)", "Will", "List", "on", "Binance", "Alpha">>]
ItemA2 == [code |-> "A2", articleCode |-> None,
           title |-> <<"Fee", "Adjustment", "Notice">>]
ItemA3 == [code |-> None, articleCode |-> "A3",
           title |-> <<"Bar", "(BAR)">>]
ItemNoId == [code |-> None, articleCode |-> None,
             title |-> <<"Binance", "Will", "List", "Baz">>]

Items == {ItemA1, ItemA2, ItemA3, ItemNoId}

\* the "content" field of the detail response of an article (a detail
\* response that arrives always carries it; the article texts do not change
\* between cycles)
Content(code) ==
    CASE code = "A1" -> <<"<p>", "Trading", "opens", "soon", "</p>">>
      [] code = "A2" -> <<"<p>", "Fee", "changes", "</p>">>
      [] code = "A3" -> <<"<p>", "Bar", "Will", "Be", "Available", "on",
                          "Binance", "Alpha", "</p>">>
      [] OTHER -> <<>>

\* every list response of at most MaxArticles items
Responses == UNION {[1..n -> Items] : n \in 0..MaxArticles}

(***************************************************************************)
(* Text helpers.                                                           *)
(***************************************************************************)
Range(s) == {s[i] : i \in DOMAIN s}

\* str.lower() on a token
Lower(tok) ==
    CASE tok = "Foo" -> "foo"
      [] tok = "(FOO)" -> "(foo)"
      [] tok = "Will" -> "will"
      [] tok = "List" -> "list"
      [] tok = "Binance" -> "binance"
      [] tok = "Alpha" -> "alpha"
      [] tok = "Fee" -> "fee"
      [] tok = "Adjustment" -> "adjustment"
      [] tok = "Notice" -> "notice"
      [] tok = "Bar" -> "bar"
      [] tok = "(BAR)" -> "(bar)"
      [] tok = "Baz" -> "baz"
      [] tok = "Trading" -> "trading"
      [] tok = "Be" -> "be"
      [] tok = "Available" -> "available"
      [] tok = "Update" -> "update"
      [] tok = "New" -> "new"
      [] tok = "Listing" -> "listing"
      [] tok = "Launchpool" -> "launchpool"
      [] OTHER -> tok

lower(text) == [i \in DOMAIN text |-> Lower(text[i])]

\* BeautifulSoup(html).get_text(" ", strip=True): the tags are dropped
IsTag(tok) == tok \in {"<p>", "</p>"}
get_text(html) == SelectSeq(html, LAMBDA tok : ~IsTag(tok))

\* phrase in text, for a phrase of whole words
Contains(text, phrase) ==
    \E i \in 0..(Len(text) - Len(phrase)) :
        \A j \in 1..Len(phrase) : text[i + j] = phrase[j]

\* the lower-case tokens that contain one of "list", "listing", "launch",
\* "trading" as a substring
KeywordTokens == {"list", "listing", "launch", "trading", "launchpool"}

\* looks_like_alpha_listing with the "binance alpha" test of the second
\* pattern left out
looks_like_alpha_listing_AnyListing(title, html) ==
    LET text == title \o get_text(html)
        low == lower(text)
    IN  \/ Contains(low, <<"will", "be", "available", "on", "binance", "alpha">>)
        \/ \E i \in DOMAIN low : low[i] \in KeywordTokens

looks_like_alpha_listing(title, html) ==
    LET text == title \o get_text(html)
        low == lower(text)
    IN  \/ Contains(low, <<"will", "be", "available", "on", "binance", "alpha">>)
        \/ /\ Contains(low, <<"binance", "alpha">>)
           /\ \E i \in DOMAIN low : low[i] \in KeywordTokens

(***************************************************************************)
(* The seen-file.  Its content is missing, unparseable, or the JSON array  *)
(* save_seen wrote: the sorted ids.                                        *)
(***************************************************************************)
IdOrder == <<"A1", "A2", "A3">>

sorted(s) == SelectSeq(IdOrder, LAMBDA x : x \in s)

MissingFile == [kind |-> "missing", data |-> <<>>]
CorruptFile == [kind |-> "corrupt", data |-> <<>>]

load_seen(f) ==
    IF f.kind = "json" THEN Range(f.data) ELSE {}

\* save_seen writing str(sorted(seen)), which json.loads rejects
save_seen_NotJson(s) == CorruptFile

save_seen(s) == [kind |-> "json", data |-> sorted(s)]

(***************************************************************************)
(* extract_handles_and_contracts.  The HTML is a sequence of tokens: plain *)
(* words, bare EVM addresses (0x and 40 hex digits), explorer URLs (a host *)
(* and the address of the path) and anchors (the host and the path of the  *)
(* href).  "0xA" < "0xB" < "0xC" stand for three EVM addresses in string   *)
(* order.                                                                  *)
(***************************************************************************)
Word == [t |-> "word", host |-> "", a |-> ""]
Addr(a) == [t |-> "addr", host |-> "", a |-> a]
Url(host, a) == [t |-> "url", host |-> host, a |-> a]
Anchor(host, a) == [t |-> "a", host |-> host, a |-> a]

\* the hosts of EXPLORER_PATTERNS, in the order of the list; a pattern
\* matches the URLs of exactly its host (with or without www.)
EXPLORER_PATTERNS ==
    <<"etherscan.io", "bscscan.com", "basescan.org", "arbiscan.io",
      "polygonscan.com", "optimistic.etherscan.io", "solscan.io",
      "tonviewer.com", "tonscan.org", "suiscan.xyz", "explorer.sui.io">>

TW_DOMAINS == <<"twitter.com", "x.com">>

\* re.findall(pat, html)
findall(pat, html) ==
    SelectSeq(html, LAMBDA tok : tok.t = "url" /\ tok.host = pat)

\* EVM_ADDR_RE.findall(html): the bare addresses and the 0x addresses inside
\* the URLs, as bare addresses
EvmAddresses == {"0xA", "0xB", "0xC"}

EVM_ADDR_RE_findall(html) ==
    LET hits == SelectSeq(html, LAMBDA tok :
                    tok.t \in {"addr", "url"} /\ tok.a \in EvmAddresses)
    IN  [i \in DOMAIN hits |-> Addr(hits[i].a)]

\* needle in u, for the needles of tag and the hosts of the vocabulary
InHost(needle, host) ==
    CASE needle = "etherscan" ->
             host \in {"etherscan.io", "optimistic.etherscan.io"}
      [] needle = "optimistic.etherscan" -> host = "optimistic.etherscan.io"
      [] needle = "bscscan" -> host = "bscscan.com"
      [] needle = "basescan" -> host = "basescan.org"
      [] needle = "arbiscan" -> host = "arbiscan.io"
      [] needle = "polygonscan" -> host = "polygonscan.com"
      [] needle = "solscan" -> host = "solscan.io"
      [] needle = "tonviewer" -> host = "tonviewer.com"
      [] needle = "tonscan" -> host = "tonscan.org"
      [] needle = "suiscan" -> host = "suiscan.xyz"
      [] needle = "explorer.sui.io" -> host = "explorer.sui.io"
      [] needle = "twitter.com" -> host = "twitter.com"
      [] needle = "x.com" -> host = "x.com"
      [] OTHER -> FALSE

\* the string order of the hosts and of the addresses
HostOrder ==
    <<"", "arbiscan.io", "basescan.org", "bscscan.com", "etherscan.io",
      "explorer.sui.io", "optimistic.etherscan.io", "polygonscan.com",
      "solscan.io", "suiscan.xyz", "tonscan.org", "tonviewer.com",
      "twitter.com", "x.com">>

AddrOrder == <<"", "0xA", "0xB", "0xC", "EQton", "So1", "bar", "foo", "sui1">>

IndexIn(seq, x) == CHOOSE i \in DOMAIN seq : seq[i] = x

SortKey(tok) ==
    IndexIn(HostOrder, tok.host) * (Len(AddrOrder) + 1) + IndexIn(AddrOrder, tok.a)

\* sorted(set(...)) of URLs or addresses
RECURSIVE sorted_set(_)
sorted_set(S) ==
    IF S = {} THEN <<>>
    ELSE LET m == CHOOSE x \in S : \A y \in S : SortKey(x) <= SortKey(y)
         IN  <<m>> \o sorted_set(S \ {m})

\* seq[:n]
Take(seq, n) == SubSeq(seq, 1, IF Len(seq) < n THEN Len(seq) ELSE n)

\* tag: the chain prefix of a contract entry
tag(tok) ==
    LET chain ==
          IF InHost("etherscan", tok.host) THEN "ETH"
          ELSE IF InHost("bscscan", tok.host) THEN "BNB"
          ELSE IF InHost("basescan", tok.host) THEN "Base"
          ELSE IF InHost("arbiscan", tok.host) THEN "Arbitrum"
          ELSE IF InHost("polygonscan", tok.host) THEN "Polygon"
          ELSE IF InHost("optimistic.etherscan", tok.host) THEN "Optimism"
          ELSE IF InHost("solscan", tok.host) THEN "Solana"
          ELSE IF InHost("tonviewer", tok.host) \/ InHost("tonscan", tok.host)
                 THEN "TON"
          ELSE IF InHost("suiscan", tok.host)
                    \/ InHost("explorer.sui.io", tok.host) THEN "Sui"
          ELSE "EVM"
    IN  [chain |-> chain, ref |-> tok]

\* the handles: the hrefs that contain a domain of TW_DOMAINS
handles_of(html) ==
    LET hits == {tok \in Range(html) :
                    tok.t = "a" /\ \E d \in Range(TW_DOMAINS) : InHost(d, tok.host)}
    IN  Take(sorted_set(hits), 3)

\* explorers = sorted(set(the matches of every pattern))
explorers_of(html) ==
    sorted_set(UNION {Range(findall(EXPLORER_PATTERNS[i], html)) :
                          i \in DOMAIN EXPLORER_PATTERNS})

\* evm_addrs = sorted(set(EVM_ADDR_RE.findall(html)))
evm_addrs_of(html) == sorted_set(Range(EVM_ADDR_RE_findall(html)))

TagAll(seq) == [i \in DOMAIN seq |-> tag(seq[i])]

\* extract_handles_and_contracts without the fallback to the bare addresses
extract_handles_and_contracts_NoFallback(html) ==
    [handles |-> handles_of(html),
     contracts |-> TagAll(Take(explorers_of(html), 8))]

extract_handles_and_contracts(html) ==
    LET fromLinks == TagAll(Take(explorers_of(html), 8))
        contracts ==
            IF fromLinks = <<>> /\ evm_addrs_of(html) # <<>>
              THEN TagAll(Take(evm_addrs_of(html), 5))
              ELSE fromLinks
    IN  [handles |-> handles_of(html), contracts |-> contracts]

(***************************************************************************)
(* The state.                                                              *)
(***************************************************************************)
VARIABLES
    file,       \* SEEN_FILE on disk
    mode,       \* "once" (ONCE=1) or "loop" (main_loop) of the running process
    pc,         \* "start", "fetch", "loop", "sleep", "done", "crashed"
    seen,       \* the seen set of the running process
    articles,   \* process_once: the list fetch_listing_articles returned
    idx,        \* process_once: the position of the for loop (1-based)
    sent,       \* process_once: the sent counter
    outcome,    \* what the last cycle printed: "sent", "nothing", "error"
    cycle,      \* history: the number of cycles started
    loaded,     \* history: what load_seen returned to the running process
    loaded0,    \* history: what the seen-file held when the behaviour began
    added,      \* history: the ids the running process added to seen
    sendCount,  \* history: per id, the number of tg_send calls that succeeded
    log,        \* history: the detail and tg_send calls of the cycle, in order
    failed,     \* history: where and how the cycle raised
    retry,      \* history: the ids whose tg_send failed in the previous cycle
    clean,      \* history: no fetch and no tg_send has failed so far
    static,     \* history: "unset", or whether every list response was the same
    feed,       \* history: that list response, while static = "yes"
    fetchLog,   \* history: the outcome of each listing request of the cycle
    fn,         \* the function applied to arg, or "none" (function checks)
    arg,        \* the input of a function under check
    res         \* the output of the function applied to arg

vars == <<file, mode, pc, seen, articles, idx, sent, outcome, cycle, loaded,
          loaded0, added, sendCount, log, failed, retry, clean, static, feed,
          fetchLog, fn, arg, res>>

\* the variables of the function checks
pvars == <<fn, arg, res>>

\* no function is under check
NoArg == [kind |-> "none"]

Modes == {"once", "loop"}

NoFailure == [at |-> 0, kind |-> "none"]

\* code = it.get("code") or it.get("articleCode")
CodeOf(it) == IF it.code # None THEN it.code ELSE it.articleCode

\* the seen-file as save_seen leaves it, or missing, or unparseable
InitialFiles == {MissingFile, CorruptFile} \cup {save_seen(s) : s \in SUBSET IDS}

Init ==
    /\ file \in InitialFiles
    /\ mode \in Modes
    /\ pc = "start"
    /\ seen = {}
    /\ articles = <<>>
    /\ idx = 0
    /\ sent = 0
    /\ outcome = "none"
    /\ cycle = 0
    /\ loaded = {}
    /\ loaded0 = load_seen(file)
    /\ added = {}
    /\ sendCount = [id \in IDS |-> 0]
    /\ log = <<>>
    /\ failed = NoFailure
    /\ retry = {}
    /\ clean = TRUE
    /\ static = "unset"
    /\ feed = <<>>
    /\ fetchLog = <<>>
    /\ fn = "none"
    /\ arg = NoArg
    /\ res = NoArg

\* LoadSeen without the try/except of load_seen: a file that cannot be
\* parsed ends the process with the exception
LoadSeen_NoExcept ==
    /\ pc = "start"
    /\ IF file.kind = "corrupt"
         THEN /\ pc' = "crashed"
              /\ outcome' = "error"
              /\ UNCHANGED <<seen, loaded>>
         ELSE /\ seen' = load_seen(file)
              /\ loaded' = load_seen(file)
              /\ pc' = "fetch"
              /\ UNCHANGED outcome
    /\ UNCHANGED <<file, mode, articles, idx, sent, cycle, loaded0, added,
                   sendCount, log, failed, retry, clean, static, feed>>
    /\ UNCHANGED <<fetchLog, fn, arg, res>>

(***************************************************************************)
(* main_loop / __main__: seen = load_seen()                                *)
(***************************************************************************)
LoadSeen ==
    /\ pc = "start"
    /\ seen' = load_seen(file)
    /\ loaded' = load_seen(file)
    /\ pc' = "fetch"
    /\ UNCHANGED <<file, mode, articles, idx, sent, outcome, cycle, loaded0,
                   added, sendCount, log, failed, retry, clean, static, feed>>
    /\ UNCHANGED <<fetchLog, fn, arg, res>>

\* Raise with a handler that falls back to the set loaded at start
Raise_ResetSeen(kind) ==
    /\ failed' = [at |-> idx, kind |-> kind]
    /\ clean' = FALSE
    /\ outcome' = "error"
    /\ pc' = IF mode = "loop" THEN "sleep" ELSE "crashed"
    /\ seen' = loaded
    /\ UNCHANGED <<file, mode, articles, idx, sent, loaded, loaded0, added,
                   sendCount, retry, static, feed>>
    /\ UNCHANGED pvars

(***************************************************************************)
(* An exception leaves process_once.  main_loop catches it, prints it and  *)
(* sleeps (the assignment seen, sent = ... and save_seen are skipped); the *)
(* ONCE branch has try/finally without except, so the process ends with    *)
(* the exception.  seen was mutated in place and keeps what was added.     *)
(***************************************************************************)
Raise(kind) ==
    /\ failed' = [at |-> idx, kind |-> kind]
    /\ clean' = FALSE
    /\ outcome' = "error"
    /\ pc' = IF mode = "loop" THEN "sleep" ELSE "crashed"
    /\ UNCHANGED <<file, mode, seen, articles, idx, sent, loaded, loaded0,
                   added, sendCount, retry, static, feed>>
    /\ UNCHANGED pvars

(***************************************************************************)
(* process_once: articles = fetch_listing_articles(1)                      *)
(***************************************************************************)
\* FetchListingOK with the loop running over the response in reverse
Reverse(r) == [i \in 1..Len(r) |-> r[Len(r) + 1 - i]]

FetchListingOK_Reversed ==
    /\ pc = "fetch"
    /\ \E r \in Responses :
        /\ articles' = Reverse(r)
        /\ IF static = "unset"
             THEN static' = "yes" /\ feed' = r
             ELSE IF static = "yes" /\ r = feed
                    THEN UNCHANGED <<static, feed>>
                    ELSE static' = "no" /\ feed' = <<>>
    /\ idx' = 1
    /\ sent' = 0
    /\ cycle' = cycle + 1
    /\ pc' = "loop"
    /\ UNCHANGED <<file, mode, seen, outcome, loaded, loaded0, added,
                   sendCount, log, failed, retry, clean>>
    /\ fetchLog' = <<"ok">>
    /\ UNCHANGED pvars

FetchListingOK ==
    /\ pc = "fetch"
    /\ \E r \in Responses :
        /\ articles' = r
        /\ IF static = "unset"
             THEN static' = "yes" /\ feed' = r
             ELSE IF static = "yes" /\ r = feed
                    THEN UNCHANGED <<static, feed>>
                    ELSE static' = "no" /\ feed' = <<>>
    /\ idx' = 1
    /\ sent' = 0
    /\ cycle' = cycle + 1
    /\ pc' = "loop"
    /\ UNCHANGED <<file, mode, seen, outcome, loaded, loaded0, added,
                   sendCount, log, failed, retry, clean>>
    /\ fetchLog' = <<"ok">>
    /\ UNCHANGED pvars

\* req_json raises: a timeout, a connection error or a rate-limit or
\* server-error status ("transient"), or another error status or a body that
\* is not JSON ("fatal"); it makes the one request and does not retry
FetchListingFail ==
    /\ pc = "fetch"
    /\ cycle' = cycle + 1
    /\ Raise("listing")
    /\ UNCHANGED log
    /\ \E status \in {"transient", "fatal"} : fetchLog' = <<status>>

(***************************************************************************)
(* process_once: one iteration of  for it in articles                      *)
(***************************************************************************)
InLoop == pc = "loop" /\ idx <= Len(articles)

SkipNoCode ==
    /\ InLoop
    /\ CodeOf(articles[idx]) = None
    /\ idx' = idx + 1
    /\ UNCHANGED <<file, mode, pc, seen, articles, sent, outcome, cycle,
                   loaded, loaded0, added, sendCount, log, failed, retry,
                   clean, static, feed>>
    /\ UNCHANGED <<fetchLog, fn, arg, res>>

\* SkipSeen with the seen test placed after fetch_article_detail
SkipSeen_AfterDetail ==
    /\ InLoop
    /\ CodeOf(articles[idx]) # None
    /\ CodeOf(articles[idx]) \in seen
    /\ log' = Append(log, <<"detail", CodeOf(articles[idx])>>)
    /\ idx' = idx + 1
    /\ UNCHANGED <<file, mode, pc, seen, articles, sent, outcome, cycle,
                   loaded, loaded0, added, sendCount, failed, retry, clean,
                   static, feed>>
    /\ UNCHANGED <<fetchLog, fn, arg, res>>

SkipSeen ==
    /\ InLoop
    /\ CodeOf(articles[idx]) # None
    /\ CodeOf(articles[idx]) \in seen
    /\ idx' = idx + 1
    /\ UNCHANGED <<file, mode, pc, seen, articles, sent, outcome, cycle,
                   loaded, loaded0, added, sendCount, log, failed, retry,
                   clean, static, feed>>
    /\ UNCHANGED <<fetchLog, fn, arg, res>>

\* fetch_article_detail raises
DetailFail ==
    /\ InLoop
    /\ LET code == CodeOf(articles[idx])
       IN  /\ code # None
           /\ code \notin seen
           /\ log' = Append(log, <<"detail", code>>)
    /\ Raise("detail")
    /\ UNCHANGED cycle
    /\ UNCHANGED fetchLog

\* the detail is fetched and the classifier rejects the article
NotListing ==
    /\ InLoop
    /\ LET code == CodeOf(articles[idx])
       IN  /\ code # None
           /\ code \notin seen
           /\ ~looks_like_alpha_listing(articles[idx].title, Content(code))
           /\ log' = Append(log, <<"detail", code>>)
    /\ idx' = idx + 1
    /\ UNCHANGED <<file, mode, pc, seen, articles, sent, outcome, cycle,
                   loaded, loaded0, added, sendCount, failed, retry, clean,
                   static, feed>>
    /\ UNCHANGED <<fetchLog, fn, arg, res>>

\* SendFail with seen.add(code) placed before tg_send
SendFail_AddBeforeSend ==
    /\ InLoop
    /\ LET code == CodeOf(articles[idx])
       IN  /\ code # None
           /\ code \notin seen
           /\ looks_like_alpha_listing(articles[idx].title, Content(code))
           /\ log' = log \o << <<"detail", code>>, <<"tg_send", code>> >>
           /\ seen' = seen \cup {code}
    /\ failed' = [at |-> idx, kind |-> "notify"]
    /\ clean' = FALSE
    /\ outcome' = "error"
    /\ pc' = IF mode = "loop" THEN "sleep" ELSE "crashed"
    /\ UNCHANGED <<file, mode, articles, idx, sent, cycle, loaded, loaded0,
                   added, sendCount, retry, static, feed>>
    /\ UNCHANGED <<fetchLog, fn, arg, res>>

\* tg_send raises: the credentials are missing, the request fails or
\* raise_for_status rejects the response
SendFail ==
    /\ InLoop
    /\ LET code == CodeOf(articles[idx])
       IN  /\ code # None
           /\ code \notin seen
           /\ looks_like_alpha_listing(articles[idx].title, Content(code))
           /\ log' = log \o << <<"detail", code>>, <<"tg_send", code>> >>
    /\ Raise("notify")
    /\ UNCHANGED cycle
    /\ UNCHANGED fetchLog

\* SendOK without seen.add(code)
SendOK_NoAdd ==
    /\ InLoop
    /\ LET code == CodeOf(articles[idx])
       IN  /\ code # None
           /\ code \notin seen
           /\ looks_like_alpha_listing(articles[idx].title, Content(code))
           /\ log' = log \o << <<"detail", code>>, <<"tg_send", code>> >>
           /\ sendCount' = [sendCount EXCEPT ![code] = @ + 1]
    /\ sent' = sent + 1
    /\ idx' = idx + 1
    /\ UNCHANGED <<file, mode, pc, seen, articles, outcome, cycle, loaded,
                   loaded0, added, failed, retry, clean, static, feed>>
    /\ UNCHANGED <<fetchLog, fn, arg, res>>

\* tg_send returns: seen.add(code); sent += 1
SendOK ==
    /\ InLoop
    /\ LET code == CodeOf(articles[idx])
       IN  /\ code # None
           /\ code \notin seen
           /\ looks_like_alpha_listing(articles[idx].title, Content(code))
           /\ log' = log \o << <<"detail", code>>, <<"tg_send", code>> >>
           /\ sendCount' = [sendCount EXCEPT ![code] = @ + 1]
           /\ seen' = seen \cup {code}
           /\ added' = added \cup {code}
    /\ sent' = sent + 1
    /\ idx' = idx + 1
    /\ UNCHANGED <<file, mode, pc, articles, outcome, cycle, loaded, loaded0,
                   failed, retry, clean, static, feed>>
    /\ UNCHANGED <<fetchLog, fn, arg, res>>

\* ReturnCycle with a process_once that returns only the ids it added
ReturnCycle_SaveAddedOnly ==
    /\ pc = "loop"
    /\ idx > Len(articles)
    /\ file' = IF sent > 0 THEN save_seen(added) ELSE file
    /\ outcome' = IF sent > 0 THEN "sent" ELSE "nothing"
    /\ pc' = IF mode = "loop" THEN "sleep" ELSE "done"
    /\ UNCHANGED <<mode, seen, articles, idx, sent, cycle, loaded, loaded0,
                   added, sendCount, log, failed, retry, clean, static, feed>>
    /\ UNCHANGED <<fetchLog, fn, arg, res>>

(***************************************************************************)
(* process_once returns; the caller saves the set when something was sent  *)
(***************************************************************************)
ReturnCycle ==
    /\ pc = "loop"
    /\ idx > Len(articles)
    /\ file' = IF sent > 0 THEN save_seen(seen) ELSE file
    /\ outcome' = IF sent > 0 THEN "sent" ELSE "nothing"
    /\ pc' = IF mode = "loop" THEN "sleep" ELSE "done"
    /\ UNCHANGED <<mode, seen, articles, idx, sent, cycle, loaded, loaded0,
                   added, sendCount, log, failed, retry, clean, static, feed>>
    /\ UNCHANGED <<fetchLog, fn, arg, res>>

\* the ids whose notification failed in the cycle that just ended
NotifyFailedIds ==
    IF failed.kind = "notify" THEN {CodeOf(articles[failed.at])} ELSE {}

\* NextCycle with seen = load_seen() moved inside the while loop
NextCycle_Reload ==
    /\ pc = "sleep"
    /\ mode = "loop"
    /\ cycle < MaxCycles
    /\ pc' = "fetch"
    /\ seen' = load_seen(file)
    /\ articles' = <<>>
    /\ idx' = 0
    /\ sent' = 0
    /\ log' = <<>>
    /\ failed' = NoFailure
    /\ retry' = NotifyFailedIds
    /\ UNCHANGED <<file, mode, outcome, cycle, loaded, loaded0, added,
                   sendCount, clean, static, feed>>
    /\ fetchLog' = <<>>
    /\ UNCHANGED pvars

\* main_loop: time.sleep(15 * 60) is over, the next iteration begins
NextCycle ==
    /\ pc = "sleep"
    /\ mode = "loop"
    /\ cycle < MaxCycles
    /\ pc' = "fetch"
    /\ articles' = <<>>
    /\ idx' = 0
    /\ sent' = 0
    /\ log' = <<>>
    /\ failed' = NoFailure
    /\ retry' = NotifyFailedIds
    /\ UNCHANGED <<file, mode, seen, outcome, cycle, loaded, loaded0, added,
                   sendCount, clean, static, feed>>
    /\ fetchLog' = <<>>
    /\ UNCHANGED pvars

\* the process has ended (ONCE) or is stopped while it sleeps (loop), and a
\* new process is started by the scheduler
Restart ==
    /\ pc \in {"sleep", "done", "crashed"}
    /\ cycle < MaxCycles
    /\ mode' \in Modes
    /\ pc' = "start"
    /\ seen' = {}
    /\ loaded' = {}
    /\ added' = {}
    /\ articles' = <<>>
    /\ idx' = 0
    /\ sent' = 0
    /\ log' = <<>>
    /\ failed' = NoFailure
    /\ retry' = NotifyFailedIds
    /\ UNCHANGED <<file, outcome, cycle, loaded0, sendCount, clean, static,
                   feed>>
    /\ fetchLog' = <<>>
    /\ UNCHANGED pvars

Next ==
    \/ LoadSeen
    \/ FetchListingOK
    \/ FetchListingFail
    \/ SkipNoCode
    \/ SkipSeen
    \/ DetailFail
    \/ NotListing
    \/ SendFail
    \/ SendOK
    \/ ReturnCycle
    \/ NextCycle
    \/ Restart

Spec == Init /\ [][Next]_vars

(***************************************************************************)
(* Definitions the properties share.                                       *)
(***************************************************************************)
\* the cycle is over: process_once returned or raised
CycleEnded == pc \in {"sleep", "done", "crashed"}

\* the calls of the cycle
Called(kind, code) == <<kind, code>> \in Range(log)

\* the candidate at position i of a list response is classified as a listing
IsListingAt(list, i) ==
    /\ CodeOf(list[i]) # None
    /\ looks_like_alpha_listing(list[i].title, Content(CodeOf(list[i])))

\* the ids whose tg_send succeeded in the cycle
SentOKIds ==
    {log[i][2] : i \in {j \in DOMAIN log : log[j][1] = "tg_send"}}
        \ NotifyFailedIds

\* the ids the seen-file holds
Persisted == Range(file.data)

(***************************************************************************)
(* C1: every id of the seen set that load_seen did not return is an id for *)
(* which a tg_send call has succeeded.                                     *)
(***************************************************************************)
C1_SeenOnlyAfterSend ==
    \A id \in seen : id \in loaded \/ sendCount[id] > 0

\* an id was added in a behaviour in which a fetch or a tg_send also failed
C1_Witness ==
    /\ ~clean
    /\ \E id \in seen : id \notin loaded /\ sendCount[id] > 0

(***************************************************************************)
(* C2: on static input with every fetch and send succeeding, from the      *)
(* second cycle on nothing is sent, no id was notified twice, and every    *)
(* listing id of the list that was not seen at the start was notified      *)
(* exactly once.                                                           *)
(***************************************************************************)
C2_OneNotificationOnStaticInput ==
    (static = "yes" /\ clean /\ cycle >= 2) =>
        /\ sent = 0
        /\ \A c \in IDS : ~Called("tg_send", c)
        /\ \A c \in IDS : sendCount[c] <= 1
        /\ \A i \in DOMAIN feed :
              (IsListingAt(feed, i) /\ CodeOf(feed[i]) \notin loaded0)
                  => sendCount[CodeOf(feed[i])] = 1

\* the second cycle over the same list is over, and it skipped an id the
\* first cycle notified
C2_Witness ==
    /\ static = "yes" /\ clean /\ cycle = 2
    /\ pc \in {"sleep", "done"}
    /\ \E i \in DOMAIN feed :
          /\ IsListingAt(feed, i)
          /\ CodeOf(feed[i]) \notin loaded0
          /\ sendCount[CodeOf(feed[i])] = 1

(***************************************************************************)
(* C3: after a detail fetch or a tg_send failed for one candidate, every   *)
(* later unseen candidate of the cycle is still detailed, and notified     *)
(* when it is a listing.                                                   *)
(***************************************************************************)
C3_FailureIsolation ==
    (CycleEnded /\ failed.kind \in {"detail", "notify"}) =>
        \A i \in (failed.at + 1)..Len(articles) :
            (CodeOf(articles[i]) # None /\ CodeOf(articles[i]) \notin seen) =>
                /\ Called("detail", CodeOf(articles[i]))
                /\ IsListingAt(articles, i)
                      => Called("tg_send", CodeOf(articles[i]))

(***************************************************************************)
(* C4: at the end of a cycle in which a notification succeeded, the        *)
(* seen-file holds the id of every notification that succeeded in it.      *)
(***************************************************************************)
C4_PersistDespiteFailure ==
    (CycleEnded /\ sent > 0) => SentOKIds \subseteq Persisted

(***************************************************************************)
(* C5: a failing listing fetch ends the cycle with the seen set and the    *)
(* seen-file unchanged and no detail fetch or notification made, the cycle *)
(* is reported as an error, and the next cycle can run.                    *)
(***************************************************************************)
C5_ListingFailureAbortsCycle ==
    /\ [][(pc = "fetch" /\ pc' # "loop") =>
            /\ seen' = seen
            /\ file' = file
            /\ log' = <<>>
            /\ sendCount' = sendCount
            /\ outcome' = "error"
            /\ pc' = IF mode = "loop" THEN "sleep" ELSE "crashed"]_vars
    /\ []((CycleEnded /\ failed.kind = "listing" /\ cycle < MaxCycles) =>
            \/ mode = "loop" /\ ENABLED NextCycle
            \/ mode = "once" /\ ENABLED Restart)

\* the listing fetch failed in a process that had added an id to its set
C5_Witness ==
    /\ CycleEnded
    /\ failed.kind = "listing"
    /\ outcome = "error"
    /\ seen # loaded

(***************************************************************************)
(* C6: a candidate whose id is in the seen set when the loop reaches it is *)
(* passed over with no detail fetch and no notification.                   *)
(***************************************************************************)
C6_SeenSkippedBeforeDetail ==
    [][(InLoop /\ CodeOf(articles[idx]) \in seen) =>
          /\ log' = log
          /\ sendCount' = sendCount
          /\ seen' = seen
          /\ idx' = idx + 1
          /\ pc' = "loop"]_vars

\* a seen candidate was passed over and the cycle has made no call
C6_Witness ==
    /\ pc = "loop"
    /\ idx = 2
    /\ CodeOf(articles[1]) \in seen
    /\ log = <<>>

(***************************************************************************)
(* C7: a detail fetch is made only for a candidate that is classified as a *)
(* listing.                                                                *)
(***************************************************************************)
C7_DetailOnlyForListings ==
    \A c \in IDS :
        Called("detail", c) =>
            \E i \in DOMAIN articles :
                CodeOf(articles[i]) = c /\ IsListingAt(articles, i)

(***************************************************************************)
(* C8: an id whose notification failed is in neither the seen set nor the  *)
(* seen-file after the cycle, and the next cycle whose list contains it    *)
(* attempts its notification again (unless the listing fetch or the id's   *)
(* own detail fetch fails in that cycle).                                  *)
(***************************************************************************)
C8_NotifyFailureRetried ==
    /\ (CycleEnded /\ failed.kind = "notify") =>
          \A c \in NotifyFailedIds : c \notin seen /\ c \notin Persisted
    /\ (CycleEnded /\ failed.kind # "listing") =>
          \A c \in retry :
              ( /\ \E i \in DOMAIN articles : CodeOf(articles[i]) = c
                /\ ~(failed.kind = "detail" /\ CodeOf(articles[failed.at]) = c) )
                  => Called("tg_send", c)

(***************************************************************************)
(* C9: the seen-file never loses an id, and every save_seen writes at      *)
(* least what load_seen returned to the process and what the process has   *)
(* added since.                                                            *)
(***************************************************************************)
C9_PersistIsSuperset ==
    [][/\ Range(file.data) \subseteq Range(file'.data)
       /\ (pc = "loop" /\ idx > Len(articles) /\ sent > 0) =>
             /\ file'.kind = "json"
             /\ (loaded \cup added) \subseteq Range(file'.data)]_vars

\* a save wrote ids that were loaded and ids that were added
C9_Witness ==
    /\ CycleEnded
    /\ outcome = "sent"
    /\ loaded # {}
    /\ added # {}
    /\ (loaded \cup added) \subseteq Persisted

(***************************************************************************)
(* C10: on a missing or unparseable seen-file load_seen returns the empty  *)
(* set and the process goes on to its cycle; in that process every         *)
(* candidate with an id it has not notified is treated as unseen, and a    *)
(* cycle that returns has notified every listing candidate of its list.    *)
(***************************************************************************)
C10_BadFileLoadsEmpty ==
    /\ [][(pc = "start" /\ file.kind \in {"missing", "corrupt"}) =>
            /\ seen' = {}
            /\ pc' = "fetch"]_vars
    /\ [][(InLoop /\ file.kind \in {"missing", "corrupt"}
              /\ CodeOf(articles[idx]) # None
              /\ CodeOf(articles[idx]) \notin added) =>
            Len(log') > Len(log)]_vars
    /\ []((pc = "loop" /\ idx > Len(articles)
              /\ file.kind \in {"missing", "corrupt"}) =>
            \A i \in DOMAIN articles :
                IsListingAt(articles, i) => CodeOf(articles[i]) \in added)

\* a process that started on an unparseable file has notified a listing
C10_Witness ==
    /\ pc = "loop"
    /\ idx > Len(articles)
    /\ file.kind = "corrupt"
    /\ \E i \in DOMAIN articles :
          IsListingAt(articles, i) /\ Called("tg_send", CodeOf(articles[i]))

(***************************************************************************)
(* C12: no failure of the listing fetch, the detail fetch or the           *)
(* notification leaves the cycle and ends the process, in either run mode. *)
(***************************************************************************)
C12_NoFailureEscapes == pc # "crashed"

(***************************************************************************)
(* C13: a cycle fails on its listing fetch only after more than one        *)
(* request when the first request failed with a transient error.           *)
(***************************************************************************)
C13_TransientListingFailureRetried ==
    (CycleEnded /\ failed.kind = "listing" /\ fetchLog[1] = "transient") =>
        Len(fetchLog) > 1

(***************************************************************************)
(* C14: a cycle makes no call for an entry without identifier, and for     *)
(* each id at most one detail fetch and at most one notification.          *)
(***************************************************************************)
CallCount(kind, code) ==
    Cardinality({i \in DOMAIN log : log[i] = <<kind, code>>})

C14_DuplicatesCollapse ==
    /\ \A i \in DOMAIN log : log[i][2] # None
    /\ \A c \in IDS :
          /\ CallCount("detail", c) <= 1
          /\ CallCount("tg_send", c) <= 1

(***************************************************************************)
(* C15: the notifications of a cycle are sent in the order in which their  *)
(* candidates stand in the listing response.                               *)
(***************************************************************************)
\* the first position of an id in a list response
FirstPos(list, c) ==
    CHOOSE i \in DOMAIN list :
        /\ CodeOf(list[i]) = c
        /\ \A j \in 1..(i - 1) : CodeOf(list[j]) # c

NotifiedInOrderOf(list) ==
    \A i, j \in DOMAIN log :
        (i < j /\ log[i][1] = "tg_send" /\ log[j][1] = "tg_send") =>
            FirstPos(list, log[i][2]) < FirstPos(list, log[j][2])

\* feed is the response as fetch_listing_articles returned it, in the
\* cycles for which it is recorded
C15_NotificationsInListOrder ==
    /\ NotifiedInOrderOf(articles)
    /\ (static = "yes" /\ log # <<>>) => NotifiedInOrderOf(feed)

\* two candidates of one response were notified
C15_Witness ==
    /\ Len(articles) = 2
    /\ Len(log) = 4
    /\ log[2] = <<"tg_send", CodeOf(articles[1])>>
    /\ log[4] = <<"tg_send", CodeOf(articles[2])>>
    /\ sent = 2

(***************************************************************************)
(* C20: within one process tg_send succeeds at most once per id: a         *)
(* notification succeeds only for an id the process has not added, and     *)
(* every id the process added stays in its seen set, also after a cycle    *)
(* that raised and did not save.                                           *)
(***************************************************************************)
C20_OncePerIdPerProcess ==
    /\ [][\A c \in IDS :
            sendCount'[c] # sendCount[c] =>
                /\ c \notin added
                /\ c \notin seen
                /\ sendCount'[c] = sendCount[c] + 1]_vars
    /\ [](added \subseteq seen)

\* a loop-mode process passes over an id it notified in a cycle that raised,
\* which is not in the seen-file
C20_Witness ==
    /\ mode = "loop"
    /\ pc = "loop"
    /\ idx = 2
    /\ outcome = "error"
    /\ CodeOf(articles[1]) \in added
    /\ CodeOf(articles[1]) \notin Persisted
    /\ log = <<>>

(***************************************************************************)
(* The functions on their own: save_seen / load_seen, the classifier and   *)
(* the extractor, each applied once to an input drawn from a bounded set.  *)
(***************************************************************************)
ovars == <<file, mode, pc, seen, articles, idx, sent, outcome, cycle, loaded,
           loaded0, added, sendCount, log, failed, retry, clean, static, feed,
           fetchLog>>

\* a set of ids, and an id to add to it
StoreArgs == {[kind |-> "store", s |-> s, x |-> x] : s \in SUBSET IDS, x \in IDS}

\* titles and bodies put together from phrases
Phrases ==
    { <<"Binance", "Will", "List", "Baz">>,
      <<"Will", "Be", "Available", "on", "Binance", "Alpha">>,
      <<"Fee", "Update">>,
      <<"Binance", "Alpha">>,
      <<"Binance">>,
      <<"Alpha", "Trading">>,
      <<"New", "Listing">>,
      <<"Launchpool">>,
      <<"Foo">> }

RECURSIVE Concat(_)
Concat(parts) ==
    IF parts = <<>> THEN <<>> ELSE Head(parts) \o Concat(Tail(parts))

Titles == {Concat(ps) : ps \in UNION {[1..n -> Phrases] : n \in 0..MaxParts}}

Bodies == {<<>>} \cup {<<"<p>">> \o ph \o <<"</p>">> : ph \in Phrases}

ClassifyArgs ==
    {[kind |-> "classify", title |-> t, html |-> h] : t \in Titles, h \in Bodies}

\* the tokens of the HTML texts given to the extractor
ExtractTokens ==
    { Word, Addr("0xA"), Addr("0xB"),
      Url("etherscan.io", "0xA"), Url("etherscan.io", "0xC"),
      Url("bscscan.com", "0xC"), Url("basescan.org", "0xC"),
      Url("arbiscan.io", "0xC"), Url("polygonscan.com", "0xC"),
      Url("optimistic.etherscan.io", "0xC"), Url("solscan.io", "So1"),
      Url("tonviewer.com", "EQton"), Url("tonscan.org", "EQton"),
      Url("suiscan.xyz", "sui1"), Url("explorer.sui.io", "sui1"),
      Anchor("x.com", "foo"), Anchor("twitter.com", "bar") }

ExtractArgs ==
    {[kind |-> "extract", html |-> h] :
        h \in UNION {[1..n -> ExtractTokens] : n \in 0..MaxTokens}}

FnInit ==
    /\ file = MissingFile
    /\ mode = "once"
    /\ pc = "start"
    /\ seen = {}
    /\ articles = <<>>
    /\ idx = 0
    /\ sent = 0
    /\ outcome = "none"
    /\ cycle = 0
    /\ loaded = {}
    /\ loaded0 = {}
    /\ added = {}
    /\ sendCount = [id \in IDS |-> 0]
    /\ log = <<>>
    /\ failed = NoFailure
    /\ retry = {}
    /\ clean = TRUE
    /\ static = "unset"
    /\ feed = <<>>
    /\ fetchLog = <<>>
    /\ fn = "none"
    /\ res = NoArg
    /\ \/ arg \in StoreArgs
       \/ arg \in ClassifyArgs
       \/ arg \in ExtractArgs

\* save_seen(s); save_seen(load_seen()); and s.add(x); save_seen(s); load_seen()
ApplyStore ==
    /\ fn = "none"
    /\ arg.kind = "store"
    /\ fn' = "store"
    /\ res' = [saved |-> save_seen(arg.s),
               resaved |-> save_seen(load_seen(save_seen(arg.s))),
               reloaded |-> load_seen(save_seen(arg.s \cup {arg.x}))]
    /\ UNCHANGED <<arg, ovars>>

ApplyClassify ==
    /\ fn = "none"
    /\ arg.kind = "classify"
    /\ fn' = "classify"
    /\ res' = [value |-> looks_like_alpha_listing(arg.title, arg.html)]
    /\ UNCHANGED <<arg, ovars>>

ApplyExtract ==
    /\ fn = "none"
    /\ arg.kind = "extract"
    /\ fn' = "extract"
    /\ res' = extract_handles_and_contracts(arg.html)
    /\ UNCHANGED <<arg, ovars>>

FnNext ==
    \/ ApplyStore
    \/ ApplyClassify
    \/ ApplyExtract

FnSpec == FnInit /\ [][FnNext]_vars

(***************************************************************************)
(* C11: saving what was loaded leaves the file as it was, and after adding *)
(* x to s and saving, loading returns s with x.                            *)
(***************************************************************************)
C11_SeenSetRoundTrip ==
    fn = "store" =>
        /\ res.resaved = res.saved
        /\ arg.x \in res.reloaded
        /\ res.reloaded = arg.s \cup {arg.x}

\* a new id was added to a set that held others, saved and loaded
C11_Witness ==
    /\ fn = "store"
    /\ arg.s # {}
    /\ arg.x \notin arg.s
    /\ arg.x \in res.reloaded
    /\ res.saved.data # <<>>

(***************************************************************************)
(* Definitions the classifier properties share: the text the classifier    *)
(* reads, and the vocabularies of the specification.                       *)
(***************************************************************************)
ClassifiedText == lower(arg.title \o get_text(arg.html))

\* a listing keyword: "listing", "new listing", "will list", "launchpool",
\* "launchpad"
HasListingKeyword(low) ==
    \/ \E i \in DOMAIN low : low[i] \in {"listing", "launchpool", "launchpad"}
    \/ Contains(low, <<"will", "list">>)

\* a noise keyword: "promotion", "fee", "update", "amendment", "contest",
\* "campaign"
HasNoiseKeyword(low) ==
    \E i \in DOMAIN low :
        low[i] \in {"promotion", "fee", "update", "amendment", "contest",
                    "campaign"}

(***************************************************************************)
(* C16, as claimed: the classifier returns false without a listing         *)
(* keyword, true with "will list" and no noise keyword, and false with a   *)
(* noise keyword.                                                          *)
(***************************************************************************)
C16_Original ==
    fn = "classify" =>
        LET low == ClassifiedText
        IN  /\ ~HasListingKeyword(low) => ~res.value
            /\ (Contains(low, <<"will", "list">>) /\ ~HasNoiseKeyword(low))
                  => res.value
            /\ HasNoiseKeyword(low) => ~res.value

(***************************************************************************)
(* C16, amended: the classifier returns false for every text without       *)
(* "binance alpha", and true for every text with "will be available on     *)
(* binance alpha" or with "binance alpha" and one of "list", "listing",    *)
(* "launch", "trading", whether or not a noise keyword is present.         *)
(***************************************************************************)
C16_AlphaListingClassifier ==
    fn = "classify" =>
        LET low == ClassifiedText
        IN  /\ ~Contains(low, <<"binance", "alpha">>) => ~res.value
            /\ Contains(low, <<"will", "be", "available", "on", "binance",
                               "alpha">>) => res.value
            /\ ( /\ Contains(low, <<"binance", "alpha">>)
                 /\ \E i \in DOMAIN low : low[i] \in KeywordTokens )
                  => res.value

\* a text with "binance alpha", "trading" and a noise keyword was accepted
C16_Witness ==
    /\ fn = "classify"
    /\ Contains(ClassifiedText, <<"binance", "alpha">>)
    /\ ~Contains(ClassifiedText, <<"will", "be", "available", "on", "binance",
                                   "alpha">>)
    /\ HasNoiseKeyword(ClassifiedText)
    /\ res.value

(***************************************************************************)
(* Definitions the extractor properties share.                             *)
(***************************************************************************)
\* the bare EVM addresses of the text: those outside explorer URLs
BareAddresses == {arg.html[i].a : i \in {j \in DOMAIN arg.html : arg.html[j].t = "addr"}}

\* the addresses that are part of an explorer URL of the text
UrlAddresses == {arg.html[i].a : i \in {j \in DOMAIN arg.html : arg.html[j].t = "url"}}

\* the text holds exactly one 0x address outside explorer URLs, and it is a
OnlyBareAddress(a) ==
    /\ Cardinality({j \in DOMAIN arg.html : arg.html[j].t = "addr"}) = 1
    /\ BareAddresses = {a}
    /\ a \notin UrlAddresses

ReturnedAs(a, chains) ==
    \E i \in DOMAIN res.contracts :
        res.contracts[i].ref = Addr(a) /\ res.contracts[i].chain \in chains

(***************************************************************************)
(* C17, as claimed: the one bare 0x address of a text is returned tagged   *)
(* "EVM" or "Unknown", also when the text holds an explorer link for a     *)
(* different address.                                                      *)
(***************************************************************************)
C17_Original ==
    fn = "extract" =>
        \A a \in EvmAddresses :
            OnlyBareAddress(a) => ReturnedAs(a, {"EVM", "Unknown"})

(***************************************************************************)
(* C17, amended: the one bare 0x address of a text that holds no explorer  *)
(* link is returned tagged "EVM" and is the only contract; when the text   *)
(* holds an explorer link, no bare address is returned.                    *)
(***************************************************************************)
C17_BareAddressWithoutExplorerLink ==
    fn = "extract" =>
        /\ \A a \in EvmAddresses :
              (OnlyBareAddress(a) /\ UrlAddresses = {}) =>
                  res.contracts = << [chain |-> "EVM", ref |-> Addr(a)] >>
        /\ UrlAddresses # {} =>
              \A i \in DOMAIN res.contracts : res.contracts[i].ref.t = "url"

\* a bare address standing among other tokens was returned
C17_Witness ==
    /\ fn = "extract"
    /\ Len(arg.html) = 3
    /\ OnlyBareAddress("0xB")
    /\ UrlAddresses = {}
    /\ ReturnedAs("0xB", {"EVM"})

(***************************************************************************)
(* C18: the chain tag of an explorer link is the chain of its domain.      *)
(***************************************************************************)
ChainOfDomain(host) ==
    CASE host = "etherscan.io" -> "ETH"
      [] host = "bscscan.com" -> "BNB"
      [] host = "basescan.org" -> "Base"
      [] host = "arbiscan.io" -> "Arbitrum"
      [] host = "polygonscan.com" -> "Polygon"
      [] host = "optimistic.etherscan.io" -> "Optimism"
      [] host = "solscan.io" -> "Solana"
      [] host \in {"tonviewer.com", "tonscan.org"} -> "TON"
      [] host \in {"suiscan.xyz", "explorer.sui.io"} -> "Sui"

C18_ChainTagOfExplorerDomain ==
    fn = "extract" =>
        \A i \in DOMAIN res.contracts :
            res.contracts[i].ref.t = "url" =>
                res.contracts[i].chain = ChainOfDomain(res.contracts[i].ref.host)

(***************************************************************************)
(* C19: the EVM addresses returned stand in the order of their first       *)
(* appearance in the text, each once.                                      *)
(***************************************************************************)
RECURSIVE FirstAppearance(_)
FirstAppearance(seq) ==
    IF seq = <<>> THEN <<>>
    ELSE LET front == FirstAppearance(SubSeq(seq, 1, Len(seq) - 1))
             last == seq[Len(seq)]
         IN  IF last \in Range(front) THEN front ELSE Append(front, last)

C19_AddressesInOrderOfAppearance ==
    (fn = "extract" /\ UrlAddresses = {}) =>
        [i \in DOMAIN res.contracts |-> res.contracts[i].ref]
            = FirstAppearance(EVM_ADDR_RE_findall(arg.html))

====
